---- MODULE Spec2Model ----
(***************************************************************************)
(* Named-matrix codec of mne/_fiff/matrix.py: _transpose_named_matrix,     *)
(* _read_named_matrix and write_named_matrix, over an abstract FIFF stream *)
(* (a sequence of block markers and tags) and an abstract node tree.       *)
(*                                                                         *)
(* Strings are sequences of characters, so that ":".join and               *)
(* str.split(":") are computed and not assumed to be inverse.  A 2-D array *)
(* is a shape and its elements in row-major order, so that .T and .size    *)
(* are computed.  Python's 0-based child index k is k+1 here.              *)
(***************************************************************************)
EXTENDS Integers, Sequences, FiniteSets, TLC

\* ------------------------------------------------------------------ bounds
\* nrow, ncol and each axis of a payload range over 0..MaxDim
MaxDim == 2
\* a node has at most MaxChildren children
MaxChildren == 2
\* _transpose_named_matrix is applied at most MaxTranspose times to a record
MaxTranspose == 2

\* ------------------------------------------------------------ FIFF kinds
FIFFB_MNE_NAMED_MATRIX == "FIFFB_MNE_NAMED_MATRIX"
FIFFB_OTHER == "FIFFB_OTHER"
FIFF_MNE_NROW == "FIFF_MNE_NROW"
FIFF_MNE_NCOL == "FIFF_MNE_NCOL"
FIFF_MNE_ROW_NAMES == "FIFF_MNE_ROW_NAMES"
FIFF_MNE_COL_NAMES == "FIFF_MNE_COL_NAMES"
\* the matrix kinds a caller may ask for
MatKinds == {"kindA", "kindB"}
Blocks == {FIFFB_MNE_NAMED_MATRIX, FIFFB_OTHER}

\* ------------------------------------------------------------- strings
Colon == ":"
\* the names a label list is made of: "a" and "b:c", which holds the delimiter
Names == {<<"a">>, <<"b", ":", "c">>}

RECURSIVE SeqsUpTo(_, _)
SeqsUpTo(S, n) ==
    IF n = 0 THEN {<<>>}
    ELSE LET shorter == SeqsUpTo(S, n - 1)
         IN shorter \cup {Append(s, x) : s \in {t \in shorter : Len(t) = n - 1}, x \in S}

NameLists == SeqsUpTo(Names, MaxDim)

HasColon(s) == \E i \in DOMAIN s : s[i] = Colon

\* ":".join(names)
RECURSIVE JoinColon(_)
JoinColon(names) ==
    IF Len(names) = 0 THEN <<>>
    ELSE IF Len(names) = 1 THEN names[1]
    ELSE names[1] \o <<Colon>> \o JoinColon(Tail(names))

\* s.split(":")
RECURSIVE SplitColon(_)
SplitColon(s) ==
    IF ~HasColon(s) THEN <<s>>
    ELSE LET i == CHOOSE j \in DOMAIN s :
                      s[j] = Colon /\ \A l \in 1..(j - 1) : s[l] # Colon
         IN <<SubSeq(s, 1, i - 1)>> \o SplitColon(SubSeq(s, i + 1, Len(s)))

\* -------------------------------------------------------------- arrays
Array(r, c, v) == [shape |-> <<r, c>>, vals |-> v]
NoArray == Array(0, 0, <<>>)
\* the r-by-c array whose elements are 1 .. r*c in row-major order
Arange(r, c) == Array(r, c, [i \in 1..(r * c) |-> i])
Arrays == {Arange(r, c) : r \in 0..MaxDim, c \in 0..MaxDim}

\* data.size
Size(d) == d.shape[1] * d.shape[2]
\* data[i, j], 1-based
At(d, i, j) == d.vals[(i - 1) * d.shape[2] + j]

\* mutant: reshape to (c, r) in place of the transpose
T_Reshape(d) == Array(d.shape[2], d.shape[1], d.vals)

\* data.T
T(d) ==
    LET r == d.shape[1]
        c == d.shape[2]
    IN Array(c, r, [k \in 1..(r * c) |-> At(d, ((k - 1) % r) + 1, ((k - 1) \div r) + 1)])

\* ------------------------------------------------------ matrix records
Mat(nr, nc, rn, cn, d) ==
    [nrow |-> nr, ncol |-> nc, row_names |-> rn, col_names |-> cn, data |-> d]
NoMat == Mat(0, 0, <<>>, <<>>, NoArray)
\* every record a caller can hand over, well-formed or not
Records ==
    {Mat(nr, nc, rn, cn, d) :
        nr \in 0..MaxDim, nc \in 0..MaxDim, rn \in NameLists, cn \in NameLists, d \in Arrays}

_transpose_named_matrix(m) ==
    [nrow |-> m.ncol, ncol |-> m.nrow,
     row_names |-> m.col_names, col_names |-> m.row_names,
     data |-> T(m.data)]

\* ------------------------------------------------- stream and payloads
NoData == [type |-> "none", i |-> 0, s |-> <<>>, m |-> NoArray]
IntData(n) == [type |-> "int", i |-> n, s |-> <<>>, m |-> NoArray]
StrData(str) == [type |-> "string", i |-> 0, s |-> str, m |-> NoArray]
MatData(d) == [type |-> "float_matrix", i |-> 0, s |-> <<>>, m |-> d]
Item(op, kind, data) == [op |-> op, kind |-> kind, data |-> data]

start_block(f, kind) == Append(f, Item("start_block", kind, NoData))
end_block(f, kind) == Append(f, Item("end_block", kind, NoData))
write_int(f, kind, n) == Append(f, Item("tag", kind, IntData(n)))
write_name_list(f, kind, names) == Append(f, Item("tag", kind, StrData(JoinColon(names))))
write_float_matrix(f, kind, d) == Append(f, Item("tag", kind, MatData(d)))

\* ------------------------------------------------------------- errors
NoError == ""
ErrCannotWrite == "ValueError: Cannot write matrix"
ErrZeroDivision == "ZeroDivisionError: float division by zero"
ErrRowNames == "ValueError: len(mat[\"row_names\"]) != mat[\"nrow\"]"
ErrColNames == "ValueError: len(mat[\"col_names\"]) != mat[\"ncol\"]"
ErrDataMissing == "ValueError: Matrix data missing"
ErrRows == "ValueError: Number of rows in matrix data and FIFF_MNE_NROW tag do not match"
ErrCols == "ValueError: Number of columns in matrix data and FIFF_MNE_NCOL tag do not match"

\* ---------------------------------------------------- write_named_matrix
n_tot(m) == m.nrow * m.ncol

\* the element-count check fails
CountMismatch(m) == Size(m.data) # n_tot(m)

\* what the failing branch raises: the ratio n_tot / float(size) is computed
\* before the ValueError is built, and dividing by float(0) raises
CountError(m) ==
    IF Size(m.data) = 0 THEN ErrZeroDivision ELSE ErrCannotWrite

Out(f, err) == [fid |-> f, err |-> err]

\* mutant: the column count is written before the row count
write_counts_ColsFirst(f, m) ==
    write_int(write_int(start_block(f, FIFFB_MNE_NAMED_MATRIX), FIFF_MNE_NCOL, m.ncol),
              FIFF_MNE_NROW, m.nrow)

write_counts(f, m) ==
    write_int(write_int(start_block(f, FIFFB_MNE_NAMED_MATRIX), FIFF_MNE_NROW, m.nrow),
              FIFF_MNE_NCOL, m.ncol)

\* mutant: the length is checked on an empty list too
write_row_names_EmptyChecked(f, m) ==
    IF Len(m.row_names) # m.nrow
    THEN Out(f, ErrRowNames)
    ELSE IF Len(m.row_names) > 0
         THEN Out(write_name_list(f, FIFF_MNE_ROW_NAMES, m.row_names), NoError)
         ELSE Out(f, NoError)

write_row_names(f, m) ==
    IF Len(m.row_names) > 0
    THEN IF Len(m.row_names) # m.nrow
         THEN Out(f, ErrRowNames)
         ELSE Out(write_name_list(f, FIFF_MNE_ROW_NAMES, m.row_names), NoError)
    ELSE Out(f, NoError)

\* mutant: the names are written before their length is checked
write_col_names_WriteFirst(f, m) ==
    IF Len(m.col_names) > 0
    THEN LET g == write_name_list(f, FIFF_MNE_COL_NAMES, m.col_names)
         IN IF Len(m.col_names) # m.ncol
            THEN Out(g, ErrColNames)
            ELSE Out(g, NoError)
    ELSE Out(f, NoError)

write_col_names(f, m) ==
    IF Len(m.col_names) > 0
    THEN IF Len(m.col_names) # m.ncol
         THEN Out(f, ErrColNames)
         ELSE Out(write_name_list(f, FIFF_MNE_COL_NAMES, m.col_names), NoError)
    ELSE Out(f, NoError)

write_payload(f, kind, m) ==
    end_block(write_float_matrix(f, kind, m.data), FIFFB_MNE_NAMED_MATRIX)

\* mutant: the block is opened before the element count is checked
write_named_matrix_OpenFirst(f, kind, m) ==
    IF CountMismatch(m)
    THEN Out(start_block(f, FIFFB_MNE_NAMED_MATRIX), CountError(m))
    ELSE LET rows == write_row_names(write_counts(f, m), m)
         IN IF rows.err # NoError
            THEN rows
            ELSE LET cols == write_col_names(rows.fid, m)
                 IN IF cols.err # NoError
                    THEN cols
                    ELSE Out(write_payload(cols.fid, kind, m), NoError)

\* the stream after the call and the error raised (NoError: returned normally)
write_named_matrix(f, kind, m) ==
    IF CountMismatch(m)
    THEN Out(f, CountError(m))
    ELSE LET rows == write_row_names(write_counts(f, m), m)
         IN IF rows.err # NoError
            THEN rows
            ELSE LET cols == write_col_names(rows.fid, m)
                 IN IF cols.err # NoError
                    THEN cols
                    ELSE Out(write_payload(cols.fid, kind, m), NoError)

\* ---------------------------------------------------------------- nodes
Node(b, dir, ch) == [block |-> b, directory |-> dir, children |-> ch]
NoNode == Node(FIFFB_OTHER, <<>>, <<>>)

has_tag(n, kind) == \E i \in DOMAIN n.directory : n.directory[i].kind = kind

\* the first tag of that kind in the node's directory, or none
find_tag(n, kind) ==
    IF has_tag(n, kind)
    THEN LET i == CHOOSE j \in DOMAIN n.directory :
                      /\ n.directory[j].kind = kind
                      /\ \A l \in 1..(j - 1) : n.directory[l].kind # kind
         IN [found |-> TRUE, data |-> n.directory[i].data]
    ELSE [found |-> FALSE, data |-> NoData]

\* --------------------------------------------------- _read_named_matrix
\* where the matrix is read from: <<>> is the node itself, <<k>> its k-th
\* child, NotAvailable neither
NotAvailable == <<0>>

\* mutant: a child block is taken without asking has_tag
ChildMatches_BlockOnly(n, k, matkind) ==
    n.children[k].block = FIFFB_MNE_NAMED_MATRIX

ChildMatches(n, k, matkind) ==
    /\ n.children[k].block = FIFFB_MNE_NAMED_MATRIX
    /\ has_tag(n.children[k], matkind)

\* mutant: the children are searched whenever the node itself does not match
Locate_SearchAlways(n, matkind) ==
    IF n.block = FIFFB_MNE_NAMED_MATRIX /\ has_tag(n, matkind)
    THEN <<>>
    ELSE IF \E k \in DOMAIN n.children : ChildMatches(n, k, matkind)
         THEN <<CHOOSE k \in DOMAIN n.children :
                    /\ ChildMatches(n, k, matkind)
                    /\ \A l \in 1..(k - 1) : ~ChildMatches(n, l, matkind)>>
         ELSE NotAvailable

\* mutant: the loop does not break, so the last matching child wins
Locate_LastMatch(n, matkind) ==
    IF n.block # FIFFB_MNE_NAMED_MATRIX
    THEN IF \E k \in DOMAIN n.children : ChildMatches(n, k, matkind)
         THEN <<CHOOSE k \in DOMAIN n.children :
                    /\ ChildMatches(n, k, matkind)
                    /\ \A l \in (k + 1)..Len(n.children) : ~ChildMatches(n, l, matkind)>>
         ELSE NotAvailable
    ELSE IF has_tag(n, matkind) THEN <<>> ELSE NotAvailable

Locate(n, matkind) ==
    IF n.block # FIFFB_MNE_NAMED_MATRIX
    THEN IF \E k \in DOMAIN n.children : ChildMatches(n, k, matkind)
         THEN <<CHOOSE k \in DOMAIN n.children :
                    /\ ChildMatches(n, k, matkind)
                    /\ \A l \in 1..(k - 1) : ~ChildMatches(n, l, matkind)>>
         ELSE NotAvailable
    ELSE IF has_tag(n, matkind) THEN <<>> ELSE NotAvailable

Resolved(n, path) == IF path = <<>> THEN n ELSE n.children[path[1]]

\* what a call gives back: status "ok" with mat, status "None", or status
\* "raise" with err; nfind counts the find_tag calls made, path is Locate's
Ret(op, status, err, m, nfind, path) ==
    [op |-> op, status |-> status, err |-> err, mat |-> m, nfind |-> nfind, path |-> path]

RowCountMismatch(n, data) ==
    LET tag == find_tag(n, FIFF_MNE_NROW)
    IN tag.found /\ tag.data.i # data.shape[1]

\* mutant: the column count is compared with the payload's rows
ColCountMismatch_AgainstRows(n, data) ==
    LET tag == find_tag(n, FIFF_MNE_NCOL)
    IN tag.found /\ tag.data.i # data.shape[1]

ColCountMismatch(n, data) ==
    LET tag == find_tag(n, FIFF_MNE_NCOL)
    IN tag.found /\ tag.data.i # data.shape[2]

\* mutant: the tag's string is taken as one name
read_names_Unsplit(n, kind) ==
    LET tag == find_tag(n, kind)
    IN IF tag.found THEN <<tag.data.s>> ELSE <<>>

read_names(n, kind) ==
    LET tag == find_tag(n, kind)
    IN IF tag.found THEN SplitColon(tag.data.s) ELSE <<>>

assemble(n, data, transpose) ==
    LET m == Mat(data.shape[1], data.shape[2],
                 read_names(n, FIFF_MNE_ROW_NAMES), read_names(n, FIFF_MNE_COL_NAMES), data)
    IN IF transpose THEN _transpose_named_matrix(m) ELSE m

read_resolved(n, matkind, transpose, path) ==
    LET tag == find_tag(n, matkind)
    IN IF ~tag.found
       THEN Ret("read", "raise", ErrDataMissing, NoMat, 1, path)
       ELSE IF RowCountMismatch(n, tag.data.m)
       THEN Ret("read", "raise", ErrRows, NoMat, 2, path)
       ELSE IF ColCountMismatch(n, tag.data.m)
       THEN Ret("read", "raise", ErrCols, NoMat, 3, path)
       ELSE Ret("read", "ok", NoError, assemble(n, tag.data.m, transpose), 5, path)

_read_named_matrix(n, matkind, transpose) ==
    LET path == Locate(n, matkind)
    IN IF path = NotAvailable
       THEN Ret("read", "None", NoError, NoMat, 0, path)
       ELSE read_resolved(Resolved(n, path), matkind, transpose, path)

\* the node the tree builder makes of one block of the stream: the block's
\* kind and the tags between its markers (a named-matrix block nests nothing)
BlockNode(items) ==
    Node(items[1].kind, SubSeq(items, 2, Len(items) - 1), <<>>)

\* ------------------------------------------------------------- inputs
Opt(S) == {<<>>} \cup {<<x>> : x \in S}
TagInt(kind, n) == Item("tag", kind, IntData(n))
TagStr(kind, str) == Item("tag", kind, StrData(str))
TagMat(kind, d) == Item("tag", kind, MatData(d))

\* what a stream may hold before a matrix is written to it
PriorStreams ==
    {<<>>, write_named_matrix(<<>>, "kindA", Mat(1, 1, <<>>, <<>>, Arange(1, 1))).fid}

\* the strings a name-list tag of a file may hold: "", "a", "b:c"
LabelStrings == {<<>>} \cup Names

\* directories of a named-matrix block: each of its five tags present or not
BlockDirs ==
    {a \o b \o c \o d \o e :
        a \in Opt({TagInt(FIFF_MNE_NROW, n) : n \in 0..MaxDim}),
        b \in Opt({TagInt(FIFF_MNE_NCOL, n) : n \in 0..MaxDim}),
        c \in Opt({TagStr(FIFF_MNE_ROW_NAMES, str) : str \in LabelStrings}),
        d \in Opt({TagStr(FIFF_MNE_COL_NAMES, str) : str \in LabelStrings}),
        e \in Opt({TagMat(k, x) : k \in MatKinds, x \in Arrays})}

\* directories of the nodes of a tree: no tag, or one matrix tag
SimpleDirs == {<<>>} \cup {<<TagMat(k, Arange(1, 1))>> : k \in MatKinds}
Leaves == {Node(b, d, <<>>) : b \in Blocks, d \in SimpleDirs}
\* a grandchild is a named-matrix block that carries a matrix tag
GrandLeaves == {Node(FIFFB_MNE_NAMED_MATRIX, <<TagMat(k, Arange(1, 1))>>, <<>>) : k \in MatKinds}
Children == Leaves \cup {Node(b, d, <<g>>) : b \in Blocks, d \in SimpleDirs, g \in GrandLeaves}
Trees == {Node(b, d, ch) : b \in Blocks, d \in SimpleDirs, ch \in SeqsUpTo(Children, MaxChildren)}

Nodes == {Node(FIFFB_MNE_NAMED_MATRIX, d, <<>>) : d \in BlockDirs} \cup Trees

\* --------------------------------------------------------------- state
VARIABLES
    fid,     \* the stream: the block markers and tags written, in order
    mat,     \* the caller's matrix record
    node,    \* the node handed to the reader
    ret,     \* the outcome of the last call
    before,  \* the stream as it was when write_named_matrix was called
    arg,     \* the kind and transpose arguments of the calls made
    mat0,    \* the caller's record as first handed over
    ntr      \* how many times it was transposed since

vars == <<fid, mat, node, ret, before, arg, mat0, ntr>>

NoArg == [kind |-> "", matkind |-> "", transpose |-> FALSE]
NoRet == Ret("init", "ok", NoError, NoMat, 0, <<>>)

InitWrite ==
    /\ fid \in PriorStreams
    /\ mat \in Records
    /\ node = NoNode
    /\ ret = NoRet
    /\ before = fid
    /\ arg = NoArg
    /\ mat0 = mat
    /\ ntr = 0

InitRead ==
    /\ fid = <<>>
    /\ mat = NoMat
    /\ node \in Nodes
    /\ ret = NoRet
    /\ before = fid
    /\ arg = NoArg
    /\ mat0 = mat
    /\ ntr = 0

InitTranspose ==
    /\ fid = <<>>
    /\ mat \in Records
    /\ node = NoNode
    /\ ret = NoRet
    /\ before = fid
    /\ arg = NoArg
    /\ mat0 = mat
    /\ ntr = 0

\* write_named_matrix(fid, kind, mat), once on each stream
Write(kind) ==
    /\ ret.op = "init"
    /\ LET out == write_named_matrix(fid, kind, mat)
       IN /\ fid' = out.fid
          /\ ret' = Ret("write", IF out.err = NoError THEN "ok" ELSE "raise",
                        out.err, NoMat, 0, <<>>)
    /\ before' = fid
    /\ arg' = [arg EXCEPT !.kind = kind]
    /\ UNCHANGED <<mat, node, mat0, ntr>>

\* the call wrote a whole block
WroteBlock == ret.op # "init" /\ Len(fid) > Len(before) /\ fid[Len(fid)].op = "end_block"

\* _read_named_matrix(fid, node, matkind, transpose=transpose) on the block
\* just written
ReadBack(matkind, transpose) ==
    /\ WroteBlock
    /\ node' = BlockNode(SubSeq(fid, Len(before) + 1, Len(fid)))
    /\ ret' = _read_named_matrix(node', matkind, transpose)
    /\ arg' = [arg EXCEPT !.matkind = matkind, !.transpose = transpose]
    /\ UNCHANGED <<fid, mat, before, mat0, ntr>>

\* _read_named_matrix(fid, node, matkind, transpose=transpose) on a node of a file
Read(matkind, transpose) ==
    /\ ret' = _read_named_matrix(node, matkind, transpose)
    /\ arg' = [arg EXCEPT !.matkind = matkind, !.transpose = transpose]
    /\ UNCHANGED <<fid, mat, node, before, mat0, ntr>>

\* _transpose_named_matrix(mat)
Transpose ==
    /\ ntr < MaxTranspose
    /\ mat' = _transpose_named_matrix(mat)
    /\ ntr' = ntr + 1
    /\ ret' = Ret("transpose", "ok", NoError, NoMat, 0, <<>>)
    /\ UNCHANGED <<fid, node, before, arg, mat0>>

NextWrite ==
    \/ \E kind \in MatKinds : Write(kind)
    \/ \E matkind \in MatKinds, transpose \in BOOLEAN : ReadBack(matkind, transpose)

NextRead == \E matkind \in MatKinds, transpose \in BOOLEAN : Read(matkind, transpose)

NextTranspose == Transpose

SpecWrite == InitWrite /\ [][NextWrite]_vars
SpecRead == InitRead /\ [][NextRead]_vars
SpecTranspose == InitTranspose /\ [][NextTranspose]_vars

Init == InitWrite \/ InitRead \/ InitTranspose
Next == NextWrite \/ NextRead \/ NextTranspose
Spec == Init /\ [][Next]_vars

\* ================================================================ claims
\* what the last write_named_matrix call appended to the stream
Appended == SubSeq(fid, Len(before) + 1, Len(fid))
\* the stream still starts with what it held before the call
KeepsPrior == Len(fid) >= Len(before) /\ SubSeq(fid, 1, Len(before)) = before
ColonFree(names) == \A i \in DOMAIN names : \A j \in DOMAIN names[i] : names[i][j] # ":"
NonEmptyNames(names) == \A i \in DOMAIN names : Len(names[i]) > 0
ElementCountFits(m) == m.nrow * m.ncol = m.data.shape[1] * m.data.shape[2]
RowLabelsFit(m) == Len(m.row_names) = 0 \/ Len(m.row_names) = m.nrow
ColLabelsFit(m) == Len(m.col_names) = 0 \/ Len(m.col_names) = m.ncol

\* the record was written and read back from its block, same kind, transpose=False
ReadBackSameKind ==
    /\ ret.op = "read"
    /\ arg.matkind = arg.kind
    /\ ~arg.transpose
    /\ ElementCountFits(mat)
    /\ RowLabelsFit(mat)
    /\ ColLabelsFit(mat)

ReturnsWhatWasWritten ==
    /\ ret.status = "ok"
    /\ ret.mat.nrow = mat.nrow
    /\ ret.mat.ncol = mat.ncol
    /\ ret.mat.row_names = mat.row_names
    /\ ret.mat.col_names = mat.col_names
    /\ ret.mat.data = mat.data

CountErrors == {ErrCannotWrite, ErrZeroDivision}
LabelErrors == {ErrRowNames, ErrColNames}
WriteRaised == ret.op = "write" /\ ret.status = "raise"

\* C2 as claimed: whenever write_named_matrix raises, the stream holds
\* exactly what it held before the call.
C2_RaiseLeavesStreamUntouched == WriteRaised => fid = before

\* C2: a failure of the element-count check is raised before anything is
\* emitted; a label-count failure is raised after the block was opened and
\* the two counts written, and the block is not closed.
C2_OnlyCountFailureLeavesStreamUntouched ==
    WriteRaised =>
        /\ ret.err \in CountErrors \cup LabelErrors
        /\ ret.err \in CountErrors => fid = before
        /\ ret.err \in LabelErrors =>
              /\ KeepsPrior
              /\ Len(Appended) >= 3
              /\ Appended[1].op = "start_block"
              /\ Appended[2].kind = FIFF_MNE_NROW
              /\ Appended[3].kind = FIFF_MNE_NCOL
              /\ \A i \in DOMAIN Appended : Appended[i].op # "end_block"

C2_Witness ==
    /\ WriteRaised
    /\ ret.err = ErrCannotWrite
    /\ Len(before) > 0
    /\ fid = before

\* C3: every record with nrow*ncol # data.size makes write_named_matrix
\* fail with the ValueError "Cannot write matrix" and nothing else, and
\* nothing is written to the stream.
C3_ElementCountGate ==
    (ret.op = "write" /\ ~ElementCountFits(mat)) =>
        /\ ret.status = "raise"
        /\ ret.err = ErrCannotWrite
        /\ fid = before

\* ------------------------------------------------- reader claims
\* the tags of that kind a node carries
TagsOf(n, kind) ==
    {n.directory[i].data : i \in {j \in DOMAIN n.directory : n.directory[j].kind = kind}}
\* a named-matrix container block carrying a tag of that kind
Carries(n, kind) == n.block = "FIFFB_MNE_NAMED_MATRIX" /\ TagsOf(n, kind) # {}
\* the children that are such blocks
MatchingChildren(n, kind) == {k \in DOMAIN n.children : Carries(n.children[k], kind)}
Least(S) == CHOOSE k \in S : \A l \in S : k <= l
ReadDone == ret.op = "read"
\* the node the matrix was read from
ReadFrom == IF ret.path = <<>> THEN node ELSE node.children[ret.path[1]]
\* its matrix payload
Payload == (CHOOSE d \in TagsOf(ReadFrom, arg.matkind) : TRUE).m
RowTagDiffers == \E d \in TagsOf(ReadFrom, FIFF_MNE_NROW) : d.i # Payload.shape[1]
ColTagDiffers == \E d \in TagsOf(ReadFrom, FIFF_MNE_NCOL) : d.i # Payload.shape[2]

NothingBelowCarries ==
    /\ ~Carries(node, arg.matkind)
    /\ \A k \in DOMAIN node.children :
          /\ ~Carries(node.children[k], arg.matkind)
          /\ \A l \in DOMAIN node.children[k].children :
                ~Carries(node.children[k].children[l], arg.matkind)

\* C4: when neither the node nor any node below it is a named-matrix block
\* carrying the requested kind, _read_named_matrix returns None, raises
\* nothing and reads no tag.
C4_AbsenceIsNonFatal ==
    (ReadDone /\ NothingBelowCarries) =>
        /\ ret.status = "None"
        /\ ret.err = NoError
        /\ ret.nfind = 0

C4_Witness ==
    /\ ReadDone
    /\ NothingBelowCarries
    /\ Len(node.children) = 2
    /\ node.children[1].block = "FIFFB_MNE_NAMED_MATRIX"
    /\ Len(node.children[1].directory) = 1
    /\ Len(node.children[1].children) = 1
    /\ TagsOf(node.children[2], arg.matkind) # {}
    /\ ret.status = "None"

DimensionsFromPayload ==
    ret.status = "ok" =>
        IF arg.transpose
        THEN ret.mat.nrow = Payload.shape[2] /\ ret.mat.ncol = Payload.shape[1]
        ELSE ret.mat.nrow = Payload.shape[1] /\ ret.mat.ncol = Payload.shape[2]

AbsentCountTagIsNoError ==
    /\ TagsOf(ReadFrom, FIFF_MNE_NROW) = {} => ret.err # ErrRows
    /\ TagsOf(ReadFrom, FIFF_MNE_NCOL) = {} => ret.err # ErrCols

\* C5 as claimed: a row-count tag that differs from the payload's rows
\* fails naming rows, a column-count tag that differs from the payload's
\* columns fails naming columns; the dimensions returned are the payload's
\* and an absent count tag is no error.
C5_EachMismatchNamesItsDimension ==
    (ReadDone /\ ret.path # NotAvailable) =>
        /\ RowTagDiffers => (ret.status = "raise" /\ ret.err = ErrRows)
        /\ ColTagDiffers => (ret.status = "raise" /\ ret.err = ErrCols)
        /\ DimensionsFromPayload
        /\ AbsentCountTagIsNoError

\* C5: a row-count tag that differs from the payload's rows fails naming
\* rows; a column-count tag that differs from the payload's columns fails
\* naming columns when the row count passed (rows are checked first, so
\* when both differ the error names rows); the dimensions returned are the
\* payload's and an absent count tag is no error.
C5_DimensionCrossCheck ==
    (ReadDone /\ ret.path # NotAvailable) =>
        /\ RowTagDiffers => (ret.status = "raise" /\ ret.err = ErrRows)
        /\ (ColTagDiffers /\ ~RowTagDiffers) => (ret.status = "raise" /\ ret.err = ErrCols)
        /\ DimensionsFromPayload
        /\ AbsentCountTagIsNoError

C5_Witness ==
    /\ ReadDone
    /\ ret.path # NotAvailable
    /\ TagsOf(ReadFrom, FIFF_MNE_NROW) # {}
    /\ ~RowTagDiffers
    /\ ColTagDiffers
    /\ Payload.shape = <<2, 1>>
    /\ ret.err = ErrCols

\* C8 as claimed: None is returned exactly when the node is no named-matrix
\* block carrying the kind and no direct child is one; a named-matrix node
\* that lacks the tag is read from its first matching child.
C8_NoneIffNeitherCaseMatches ==
    ReadDone =>
        /\ ret.status = "None" <=>
              (~Carries(node, arg.matkind) /\ MatchingChildren(node, arg.matkind) = {})
        /\ ( /\ node.block = "FIFFB_MNE_NAMED_MATRIX"
             /\ ~Carries(node, arg.matkind)
             /\ MatchingChildren(node, arg.matkind) # {} )
           => ret.path = <<Least(MatchingChildren(node, arg.matkind))>>

\* C8: None is returned exactly when the node is a named-matrix block that
\* lacks the kind, or is no named-matrix block and has no direct child that
\* is one carrying the kind; the children of a named-matrix node are never
\* searched.
C8_NoneIffNotLocated ==
    ReadDone =>
        /\ ret.status = "None" <=>
              IF node.block = "FIFFB_MNE_NAMED_MATRIX"
              THEN TagsOf(node, arg.matkind) = {}
              ELSE MatchingChildren(node, arg.matkind) = {}
        /\ node.block = "FIFFB_MNE_NAMED_MATRIX" => ret.path \in {<<>>, NotAvailable}

C8_Witness ==
    /\ ReadDone
    /\ node.block = "FIFFB_MNE_NAMED_MATRIX"
    /\ TagsOf(node, arg.matkind) = {}
    /\ 1 \in MatchingChildren(node, arg.matkind)
    /\ ret.status = "None"
    /\ ret.nfind = 0

\* C9: under a node that is no named-matrix block, the matrix is read from
\* the matching direct child of least index; children that are blocks
\* without the tag or carry the tag without being blocks are skipped, later
\* matches are not used, and a match two levels down is not found.
C9_FirstMatchingChild ==
    (ReadDone /\ node.block # "FIFFB_MNE_NAMED_MATRIX") =>
        IF MatchingChildren(node, arg.matkind) # {}
        THEN /\ ret.status # "None"
             /\ ret.path = <<Least(MatchingChildren(node, arg.matkind))>>
             /\ ret.status = "ok" => ret.mat.data.vals = Payload.vals
        ELSE /\ ret.status = "None"
             /\ ret.path = NotAvailable

C9_Witness ==
    /\ ReadDone
    /\ node.block # "FIFFB_MNE_NAMED_MATRIX"
    /\ Len(node.children) = 2
    /\ node.children[1].block = "FIFFB_MNE_NAMED_MATRIX"
    /\ TagsOf(node.children[1], arg.matkind) = {}
    /\ Len(node.children[1].children) = 1
    /\ Carries(node.children[1].children[1], arg.matkind)
    /\ Carries(node.children[2], arg.matkind)
    /\ ret.path = <<2>>

\* ------------------------------------------------- writer claims
WriteDone == ret.op = "write"
KindsAppended == {Appended[i].kind : i \in DOMAIN Appended}
RowLabelsMismatch == Len(mat.row_names) > 0 /\ Len(mat.row_names) # mat.nrow
ColLabelsMismatch == Len(mat.col_names) > 0 /\ Len(mat.col_names) # mat.ncol

\* C6: a record that passes the element-count check fails with a label
\* error exactly when row_names is non-empty and not nrow long or col_names
\* is non-empty and not ncol long; an empty list never fails, whatever the
\* dimension, and then no tag is written for it.
C6_LabelLengthGate ==
    (WriteDone /\ ElementCountFits(mat)) =>
        /\ ret.status = "raise" <=> (RowLabelsMismatch \/ ColLabelsMismatch)
        /\ ret.status = "raise" => ret.err \in LabelErrors
        /\ ret.err = ErrRowNames => RowLabelsMismatch
        /\ ret.err = ErrColNames => ColLabelsMismatch
        /\ Len(mat.row_names) = 0 => FIFF_MNE_ROW_NAMES \notin KindsAppended
        /\ Len(mat.col_names) = 0 => FIFF_MNE_COL_NAMES \notin KindsAppended

C6_Witness ==
    /\ WriteDone
    /\ ElementCountFits(mat)
    /\ mat.nrow = 2
    /\ Len(mat.row_names) = 0
    /\ Len(mat.col_names) = 1
    /\ mat.ncol = 2
    /\ ret.err = ErrColNames

\* C10: what a successful write appends is, in this order, start_block, the
\* row count, the column count, the row names iff row_names is non-empty,
\* the column names iff col_names is non-empty, the float matrix under the
\* caller's kind, end_block; nothing else, and the markers are balanced.
C10_EmissionOrder ==
    (WriteDone /\ ret.status = "ok") =>
        LET hasRows == IF Len(mat.row_names) > 0 THEN 1 ELSE 0
            hasCols == IF Len(mat.col_names) > 0 THEN 1 ELSE 0
            n == Len(Appended)
        IN /\ KeepsPrior
           /\ n = 5 + hasRows + hasCols
           /\ Appended[1] = Item("start_block", "FIFFB_MNE_NAMED_MATRIX", NoData)
           /\ Appended[2] = Item("tag", "FIFF_MNE_NROW", IntData(mat.nrow))
           /\ Appended[3] = Item("tag", "FIFF_MNE_NCOL", IntData(mat.ncol))
           /\ hasRows = 1 =>
                 /\ Appended[4].op = "tag"
                 /\ Appended[4].kind = "FIFF_MNE_ROW_NAMES"
                 /\ Appended[4].data.type = "string"
           /\ hasCols = 1 =>
                 /\ Appended[4 + hasRows].op = "tag"
                 /\ Appended[4 + hasRows].kind = "FIFF_MNE_COL_NAMES"
                 /\ Appended[4 + hasRows].data.type = "string"
           /\ Appended[n - 1] = Item("tag", arg.kind, MatData(mat.data))
           /\ Appended[n] = Item("end_block", "FIFFB_MNE_NAMED_MATRIX", NoData)
           /\ Cardinality({i \in 1..n : Appended[i].op = "start_block"}) = 1
           /\ Cardinality({i \in 1..n : Appended[i].op = "end_block"}) = 1

C10_Witness ==
    /\ WriteDone
    /\ ret.status = "ok"
    /\ Len(before) > 0
    /\ Len(mat.row_names) = 2
    /\ Len(mat.col_names) = 1
    /\ Len(Appended) = 7

\* C11: when the element count passes, row_names is empty or nrow long and
\* col_names is non-empty and not ncol long, write_named_matrix raises the
\* column-label error after appending start_block, the row count, the
\* column count and, iff row_names is non-empty, the row names; no column
\* names, no matrix payload and no end_block follow, so the named-matrix
\* block is left open.
C11_PartialWriteOnColumnFailure ==
    (WriteDone /\ ElementCountFits(mat) /\ RowLabelsFit(mat) /\ ColLabelsMismatch) =>
        LET hasRows == IF Len(mat.row_names) > 0 THEN 1 ELSE 0
            n == Len(Appended)
        IN /\ ret.status = "raise"
           /\ ret.err = ErrColNames
           /\ KeepsPrior
           /\ n = 3 + hasRows
           /\ Appended[1] = Item("start_block", "FIFFB_MNE_NAMED_MATRIX", NoData)
           /\ Appended[2] = Item("tag", "FIFF_MNE_NROW", IntData(mat.nrow))
           /\ Appended[3] = Item("tag", "FIFF_MNE_NCOL", IntData(mat.ncol))
           /\ hasRows = 1 =>
                 /\ Appended[4].op = "tag"
                 /\ Appended[4].kind = "FIFF_MNE_ROW_NAMES"
                 /\ Appended[4].data.type = "string"
           /\ \A i \in 1..n :
                 /\ Appended[i].kind # "FIFF_MNE_COL_NAMES"
                 /\ Appended[i].data.type # "float_matrix"
                 /\ Appended[i].op # "end_block"
           /\ Cardinality({i \in 1..n : Appended[i].op = "start_block"}) = 1

C11_Witness ==
    /\ WriteDone
    /\ ElementCountFits(mat)
    /\ mat.nrow = 2
    /\ Len(mat.row_names) = 2
    /\ mat.ncol = 2
    /\ Len(mat.col_names) = 1
    /\ Len(before) > 0
    /\ ret.err = ErrColNames
    /\ Len(Appended) = 4
    /\ Appended[4].kind = "FIFF_MNE_ROW_NAMES"

\* ---------------------------------------------- transpose claims
Fields == {"nrow", "ncol", "row_names", "col_names", "data"}

\* m is t with rows and columns exchanged
Exchanged(m, t) ==
    /\ m.nrow = t.ncol
    /\ m.ncol = t.nrow
    /\ m.row_names = t.col_names
    /\ m.col_names = t.row_names
    /\ m.data.shape = <<t.data.shape[2], t.data.shape[1]>>
    /\ Len(m.data.vals) = Len(t.data.vals)
    /\ \A i \in 1..t.data.shape[1] : \A j \in 1..t.data.shape[2] :
          m.data.vals[(j - 1) * t.data.shape[1] + i] = t.data.vals[(i - 1) * t.data.shape[2] + j]

\* C7: one application of _transpose_named_matrix exchanges nrow with ncol,
\* row_names with col_names and data with its transpose and changes no
\* other field; two applications give back the record, well-formed or not.
C7_TransposeInvolution ==
    /\ DOMAIN mat = Fields
    /\ ntr % 2 = 0 => mat = mat0
    /\ ntr % 2 = 1 => Exchanged(mat, mat0)

C7_Witness ==
    /\ ntr = 2
    /\ mat0.data.shape = <<2, 2>>
    /\ mat0.nrow # mat0.ncol
    /\ Len(mat0.row_names) = 2
    /\ Len(mat0.col_names) = 1
    /\ mat = mat0

====
